---- MODULE Spec2Model ----
(***************************************************************************)
(* dag-map: a topologically ordered map of key/value pairs.                *)
(*                                                                         *)
(* The model follows src/dag-map.js.  The Vertices object is a record      *)
(*   [at, stack, path, result]                                             *)
(* where "at" is the sequence of vertex objects (this[0..length-1]) and    *)
(* the three IntStacks are sequences of integers.  A vertex object is      *)
(*   [idx, key, val, out, flag, inc]                                       *)
(* where "inc" is the array part of the vertex (vertex[0..length-1]), the  *)
(* indices of the vertices that must be visited before it.  Indices are    *)
(* 0-based as in the source; element i of a JS array is q[i + 1] here.     *)
(***************************************************************************)
EXTENDS Integers, Sequences, FiniteSets, TLC

VARIABLES
    vertices,   \* DAG._vertices of the instance under test
    twin,       \* DAG._vertices of a second instance given the same add calls
    last,       \* summary of the last call made on the instance
    emitted,    \* the (key, value) pairs the visitor received in the last each
    req,        \* <<x, y>>: a successful add asked for x to be visited before y
    added,      \* the keys that were explicitly added (first argument of add)
    calls,      \* the number of add calls made so far
    trace,      \* the calls of the documented example made so far, in order
    pass        \* the call that is running, when calls are taken step by step

vars == <<vertices, twin, last, emitted, req, added, calls, trace, pass>>

----------------------------------------------------------------------------
(* Inputs *)

\* the most add calls made on one instance
MaxCalls == 2

Keys == {"a", "b", "c"}

\* the most constraint targets one call names, before and after together: a
\* call that succeeds names at most every other key
MaxTargets == Cardinality(Keys) - 1

\* the empty string stands for every falsy key (src/dag-map.js:23, :68)
NoKey == ""

Values == {"v1", "v2"}

\* JavaScript's undefined, as a value of a vertex
Undefined == "undefined"

\* the three shapes of the before/after arguments (src/dag-map.js:28-47)
Absent == [kind |-> "undefined", s |-> NoKey, a |-> <<>>]

Str(k) == [kind |-> "string", s |-> k, a |-> <<>>]

Arr(q) == [kind |-> "array", s |-> NoKey, a |-> q]

SeqsUpTo(S, n) == UNION {[1..m -> S] : m \in 0..n}

ConstraintArgs ==
    {Absent} \cup {Str(k) : k \in Keys}
             \cup {Arr(q) : q \in SeqsUpTo(Keys \cup {NoKey}, MaxTargets)}

\* `if (before)`: undefined and "" are falsy, every array is truthy
Truthy(x) == x.kind = "array" \/ (x.kind = "string" /\ x.s # NoKey)

\* the keys a before/after argument names, in processing order
Targets(x) ==
    IF ~Truthy(x) THEN <<>> ELSE IF x.kind = "string" THEN <<x.s>> ELSE x.a

----------------------------------------------------------------------------
(* IntStack, src/dag-map.js:183-193 *)

push(q, n) == Append(q, n)

\* pop() returns this[--this.length]
popped(q) == q[Len(q)]

pop(q) == SubSeq(q, 1, Len(q) - 1)

\* ~index, the one's complement that tags an exit marker
Compl(n) == -n - 1

----------------------------------------------------------------------------
(* Vertices, src/dag-map.js:60-181 *)

\* new Vertices()
NewVertices == [at |-> <<>>, stack |-> <<>>, path |-> <<>>, result |-> <<>>]

\* this[i]
At(V, i) == V.at[i + 1]

SetAt(V, i, vertex) == [V EXCEPT !.at[i + 1] = vertex]

\* what a call returns when it does not throw
Ok(V) == [V |-> V, err |-> "none", chain |-> <<>>]

\* what a call leaves behind when it throws; chain lists the keys of a
\* "cycle detected: k1 <- k2 <- ..." message, in order
Throw(V, err, chain) == [V |-> V, err |-> err, chain |-> chain]

\* the index of the vertex with this key, or -1: the loop of Vertices.add
RECURSIVE IndexOf(_, _, _)
IndexOf(V, key, i) ==
    IF i >= Len(V.at) THEN -1
    ELSE IF At(V, i).key = key THEN i
    ELSE IndexOf(V, key, i + 1)

\* the vertex object Vertices.add creates
NewVertex(l, key) ==
    [idx |-> l, key |-> key, val |-> Undefined, out |-> FALSE, flag |-> FALSE,
     inc |-> <<>>]

\* Vertices.add once the lookup loop is done: found is its result
VerticesAddFound(V, key, found) ==
    IF found >= 0 THEN [V |-> V, err |-> "none", idx |-> found]
    ELSE [V   |-> [V EXCEPT !.at = Append(@, NewVertex(Len(V.at), key))],
          err |-> "none",
          idx |-> Len(V.at)]

\* Vertices.add without the lookup loop: every call creates a vertex
VerticesAddNoLookup(V, key) ==
    IF key = NoKey THEN [V |-> V, err |-> "missing key", idx |-> -1]
    ELSE VerticesAddFound(V, key, -1)

\* Vertices.add creating the vertex with its key as its value
VerticesAddValIsKey(V, key) ==
    IF key = NoKey THEN [V |-> V, err |-> "missing key", idx |-> -1]
    ELSE IF IndexOf(V, key, 0) >= 0
    THEN [V |-> V, err |-> "none", idx |-> IndexOf(V, key, 0)]
    ELSE [V   |-> [V EXCEPT !.at = Append(@,
                      [NewVertex(Len(V.at), key) EXCEPT !.val = key])],
          err |-> "none",
          idx |-> Len(V.at)]

\* Vertices.add(key): [V, err, idx]; err is "missing key" when it throws
VerticesAdd(V, key) ==
    IF key = NoKey THEN [V |-> V, err |-> "missing key", idx |-> -1]
    ELSE VerticesAddFound(V, key, IndexOf(V, key, 0))

\* reset leaving the path stack as it is
resetKeepsPath(V) ==
    [at     |-> [i \in 1..Len(V.at) |-> [V.at[i] EXCEPT !.flag = FALSE]],
     stack  |-> <<>>,
     path   |-> V.path,
     result |-> <<>>]

\* reset leaving the result stack as it is
resetKeepsResult(V) ==
    [at     |-> [i \in 1..Len(V.at) |-> [V.at[i] EXCEPT !.flag = FALSE]],
     stack  |-> <<>>,
     path   |-> <<>>,
     result |-> V.result]

\* reset clearing the out flag along with the visited flag
resetClearsOut(V) ==
    [at     |-> [i \in 1..Len(V.at) |->
                    [V.at[i] EXCEPT !.flag = FALSE, !.out = FALSE]],
     stack  |-> <<>>,
     path   |-> <<>>,
     result |-> <<>>]

\* Vertices.reset()
reset(V) ==
    [at     |-> [i \in 1..Len(V.at) |-> [V.at[i] EXCEPT !.flag = FALSE]],
     stack  |-> <<>>,
     path   |-> <<>>,
     result |-> <<>>]

\* Vertices.pushIncoming(incomming): for (i = length - 1; i >= 0; i--)
RECURSIVE pushIncomingFrom(_, _, _)
pushIncomingFrom(V, incomming, i) ==
    IF i < 0 THEN V
    ELSE IF ~At(V, incomming.inc[i + 1]).flag
    THEN pushIncomingFrom([V EXCEPT !.stack = push(@, incomming.inc[i + 1])],
                          incomming, i - 1)
    ELSE pushIncomingFrom(V, incomming, i - 1)

\* pushIncoming with its loop running upwards: for (i = 0; i < length; i++)
RECURSIVE pushIncomingUpFrom(_, _, _)
pushIncomingUpFrom(V, incomming, i) ==
    IF i >= Len(incomming.inc) THEN V
    ELSE IF ~At(V, incomming.inc[i + 1]).flag
    THEN pushIncomingUpFrom([V EXCEPT !.stack = push(@, incomming.inc[i + 1])],
                            incomming, i + 1)
    ELSE pushIncomingUpFrom(V, incomming, i + 1)

pushIncomingUp(V, incomming) == pushIncomingUpFrom(V, incomming, 0)

pushIncoming(V, incomming) ==
    pushIncomingFrom(V, incomming, Len(incomming.inc) - 1)

RECURSIVE visitLoop(_, _)

\* the enter branch of Vertices.visit; V is the store after the pop
enter(V, index, search) ==
    IF At(V, index).flag THEN visitLoop(V, search)
    ELSE IF search = At(V, index).key
    THEN [V EXCEPT !.at[index + 1].flag = TRUE, !.path = push(@, index)]
    ELSE visitLoop(
           pushIncoming([V EXCEPT !.at[index + 1].flag = TRUE,
                                  !.path = push(@, index),
                                  !.stack = push(@, Compl(index))],
                        At(V, index)),
           search)

\* the exit branch leaving the finished vertex on the path stack
exitKeepsPath(V, index, search) ==
    visitLoop([V EXCEPT !.result = push(@, Compl(index))], search)

\* the exit branch of Vertices.visit; V is the store after the pop
exit(V, index, search) ==
    visitLoop([V EXCEPT !.path = pop(@), !.result = push(@, Compl(index))], search)

\* the while loop of Vertices.visit
visitLoop(V, search) ==
    IF Len(V.stack) = 0 THEN V
    ELSE IF popped(V.stack) >= 0
    THEN enter([V EXCEPT !.stack = pop(@)], popped(V.stack), search)
    ELSE exit([V EXCEPT !.stack = pop(@)], popped(V.stack), search)

\* Vertices.visit(start, search); start is given by its index
visit(V, start, search) ==
    visitLoop([V EXCEPT !.stack = push(@, start)], search)

\* One iteration of the while loop of Vertices.visit, for the calls taken step
\* by step: [V, brk, entered].  brk is set when the iteration ends in break,
\* entered is the index of the vertex it entered, or -1.

\* the enter branch without `if (vertex.flag) continue`
enterStepAnyFlag(V, index, search) ==
    IF search = At(V, index).key
    THEN [V       |-> [V EXCEPT !.at[index + 1].flag = TRUE, !.path = push(@, index)],
          brk     |-> TRUE,
          entered |-> index]
    ELSE [V       |-> pushIncoming([V EXCEPT !.at[index + 1].flag = TRUE,
                                             !.path = push(@, index),
                                             !.stack = push(@, Compl(index))],
                                   At(V, index)),
          brk     |-> FALSE,
          entered |-> index]

\* the enter branch; V is the store after the pop
enterStep(V, index, search) ==
    IF At(V, index).flag THEN [V |-> V, brk |-> FALSE, entered |-> -1]
    ELSE IF search = At(V, index).key
    THEN [V       |-> [V EXCEPT !.at[index + 1].flag = TRUE, !.path = push(@, index)],
          brk     |-> TRUE,
          entered |-> index]
    ELSE [V       |-> pushIncoming([V EXCEPT !.at[index + 1].flag = TRUE,
                                             !.path = push(@, index),
                                             !.stack = push(@, Compl(index))],
                                   At(V, index)),
          brk     |-> FALSE,
          entered |-> index]

\* the exit branch; V is the store after the pop
exitStep(V, index) ==
    [V       |-> [V EXCEPT !.path = pop(@), !.result = push(@, Compl(index))],
     brk     |-> FALSE,
     entered |-> -1]

\* let index = stack.pop() | 0 and the branch it selects
visitStep(V, search) ==
    IF popped(V.stack) >= 0
    THEN enterStep([V EXCEPT !.stack = pop(@)], popped(V.stack), search)
    ELSE exitStep([V EXCEPT !.stack = pop(@)], popped(V.stack))

\* Vertices.each(indices, cb): the (key, val) pairs handed to cb, in order
each(V, indices) ==
    [i \in 1..Len(indices) |-> <<At(V, indices[i]).key, At(V, indices[i]).val>>]

\* the keys of the vertices on the path stack, bottom first: what
\* this.each(this.path, ...) appends to the message
PathKeys(V) == [i \in 1..Len(V.path) |-> At(V, V.path[i]).key]

\* the end of the deep check testing the result stack in place of the path
deepCheckTestsResult(V, w) ==
    IF Len(V.result) > 0 THEN Throw(V, "cycle", <<w>> \o PathKeys(V)) ELSE Ok(V)

\* the end of the deep check; V is the store after reset and visit
deepCheck(V, w) ==
    IF Len(V.path) > 0 THEN Throw(V, "cycle", <<w>> \o PathKeys(V)) ELSE Ok(V)

\* check without its first test, v.key === w
checkNoSelf(V, v, w) ==
    IF Len(At(V, v).inc) = 0 THEN Ok(V)
    ELSE IF \E i \in 1..Len(At(V, v).inc) : At(V, At(V, v).inc[i]).key = w
    THEN Throw(V, "cycle", <<w, At(V, v).key, w>>)
    ELSE deepCheck(visit(reset(V), v, w), w)

\* check without its deep search: the shallow scan is the last test
checkShallowOnly(V, v, w) ==
    IF At(V, v).key = w THEN Throw(V, "cycle", <<w, w>>)
    ELSE IF \E i \in 1..Len(At(V, v).inc) : At(V, At(V, v).inc[i]).key = w
    THEN Throw(V, "cycle", <<w, At(V, v).key, w>>)
    ELSE Ok(V)

\* Vertices.check(v, w): v is a vertex index, w a key.
\* [V, err, chain]; err is "cycle" when it throws
check(V, v, w) ==
    IF At(V, v).key = w THEN Throw(V, "cycle", <<w, w>>)
    ELSE IF Len(At(V, v).inc) = 0 THEN Ok(V)
    ELSE IF \E i \in 1..Len(At(V, v).inc) : At(V, At(V, v).inc[i]).key = w
    THEN Throw(V, "cycle", <<w, At(V, v).key, w>>)
    ELSE deepCheck(visit(reset(V), v, w), w)

\* the rest of Vertices.addEdge without the scan for an entry already there
commitEdgeNoScan(c, v, w) ==
    IF c.err # "none" THEN c
    ELSE Ok([c.V EXCEPT !.at[w + 1].inc = Append(@, At(c.V, v).idx),
                        !.at[v + 1].out = TRUE])

\* the rest of Vertices.addEdge without v.out = true
commitEdgeNoOut(c, v, w) ==
    IF c.err # "none" THEN c
    ELSE IF \E i \in 1..Len(At(c.V, w).inc) : At(c.V, w).inc[i] = At(c.V, v).idx
    THEN c
    ELSE Ok([c.V EXCEPT !.at[w + 1].inc = Append(@, At(c.V, v).idx)])

\* the rest of Vertices.addEdge recording the edge the wrong way round
commitEdgeReversed(c, v, w) ==
    IF c.err # "none" THEN c
    ELSE IF \E i \in 1..Len(At(c.V, v).inc) : At(c.V, v).inc[i] = At(c.V, w).idx
    THEN c
    ELSE Ok([c.V EXCEPT !.at[v + 1].inc = Append(@, At(c.V, w).idx),
                        !.at[w + 1].out = TRUE])

\* the rest of Vertices.addEdge setting the out flag of the successor
commitEdgeMarksSuccessor(c, v, w) ==
    IF c.err # "none" THEN c
    ELSE IF \E i \in 1..Len(At(c.V, w).inc) : At(c.V, w).inc[i] = At(c.V, v).idx
    THEN c
    ELSE Ok([c.V EXCEPT !.at[w + 1].inc = Append(@, At(c.V, v).idx),
                        !.at[w + 1].out = TRUE])

\* Vertices.addEdge after its call of check, whose outcome is c
commitEdge(c, v, w) ==
    IF c.err # "none" THEN c
    ELSE IF \E i \in 1..Len(At(c.V, w).inc) : At(c.V, w).inc[i] = At(c.V, v).idx
    THEN c
    ELSE Ok([c.V EXCEPT !.at[w + 1].inc = Append(@, At(c.V, v).idx),
                        !.at[v + 1].out = TRUE])

\* Vertices.addEdge(v, w): both given by index
addEdge(V, v, w) == commitEdge(check(V, v, At(V, w).key), v, w)

\* the for loop of walk running from the last vertex to the first
RECURSIVE walkFromLast(_, _)
walkFromLast(V, i) ==
    IF i >= Len(V.at) THEN V
    ELSE IF At(V, Len(V.at) - 1 - i).out THEN walkFromLast(V, i + 1)
    ELSE walkFromLast(visit(V, At(V, Len(V.at) - 1 - i).idx, ""), i + 1)

\* the for loop of Vertices.walk
RECURSIVE walkFrom(_, _)
walkFrom(V, i) ==
    IF i >= Len(V.at) THEN V
    ELSE IF At(V, i).out THEN walkFrom(V, i + 1)
    ELSE walkFrom(visit(V, At(V, i).idx, ""), i + 1)

\* the last line of walk handing the vertices to cb in insertion order
emitInsertionOrder(V) ==
    [V |-> V, out |-> each(V, [i \in 1..Len(V.at) |-> i - 1])]

\* the last line of Vertices.walk, this.each(this.result, cb)
emit(V) == [V |-> V, out |-> each(V, V.result)]

\* Vertices.walk(cb): [V, out]; out is what cb received
walk(V) == emit(walkFrom(reset(V), 0))

----------------------------------------------------------------------------
(* DAG, src/dag-map.js:7-58 *)

RECURSIVE addBefore(_, _, _, _)

\* vertices.addEdge(v, w) for the vertex w that vertices.add(before[i]) returned
addBeforeEdge(w, v, before, i) ==
    IF w.err # "none" THEN Throw(w.V, w.err, <<>>)
    ELSE addBefore(addEdge(w.V, v, w.idx), v, before, i + 1)

\* for (i = 0; i < before.length; i++) vertices.addEdge(v, vertices.add(before[i]));
\* r is the outcome so far
addBefore(r, v, before, i) ==
    IF r.err # "none" \/ i >= Len(before) THEN r
    ELSE addBeforeEdge(VerticesAdd(r.V, before[i + 1]), v, before, i)

RECURSIVE addAfter(_, _, _, _)

\* vertices.addEdge(w, v) for the vertex w that vertices.add(after[i]) returned
addAfterEdge(w, v, after, i) ==
    IF w.err # "none" THEN Throw(w.V, w.err, <<>>)
    ELSE addAfter(addEdge(w.V, w.idx, v), v, after, i + 1)

\* for (i = 0; i < after.length; i++) vertices.addEdge(vertices.add(after[i]), v);
\* r is the outcome so far
addAfter(r, v, after, i) ==
    IF r.err # "none" \/ i >= Len(after) THEN r
    ELSE addAfterEdge(VerticesAdd(r.V, after[i + 1]), v, after, i)

\* if (before) { ... }
ifBefore(V, v, before) ==
    IF Truthy(before)
    THEN IF before.kind = "string"
         THEN addBefore(Ok(V), v, <<before.s>>, 0)
         ELSE addBefore(Ok(V), v, before.a, 0)
    ELSE Ok(V)

\* if (after) { ... }; r is the outcome of the before part
ifAfter(r, v, after) ==
    IF r.err # "none" THEN r
    ELSE IF Truthy(after)
    THEN IF after.kind = "string"
         THEN addAfter(r, v, <<after.s>>, 0)
         ELSE addAfter(r, v, after.a, 0)
    ELSE r

\* DAG.add from v.val = value on; r is what vertices.add(key) returned
addVertex(r, value, before, after) ==
    ifAfter(ifBefore([r.V EXCEPT !.at[r.idx + 1].val = value], r.idx, before),
            r.idx, after)

\* DAG.add(key, value, before, after): [V, err, chain]
add(V, key, value, before, after) ==
    IF key = NoKey THEN Throw(V, "argument key is required", <<>>)
    ELSE addVertex(VerticesAdd(V, key), value, before, after)

\* DAG.each(callback)
DagEach(V) == walk(V)

----------------------------------------------------------------------------
(* The calls a client makes *)

\* the <<before, after>> pairs a call passes
ConstraintPairs ==
    {p \in ConstraintArgs \X ConstraintArgs :
        Len(Targets(p[1])) + Len(Targets(p[2])) <= MaxTargets}

\* the set of the elements of a sequence
Range(q) == {q[i] : i \in 1..Len(q)}

HasKey(V, key) == \E i \in 1..Len(V.at) : V.at[i].key = key

\* what the key of a call was when the call was made: not in the store, in the
\* store only because a constraint named it, or explicitly added before
Was(key) ==
    IF key \in added THEN "added"
    ELSE IF HasKey(vertices, key) THEN "placeholder"
    ELSE "absent"

\* the key of a call is in the store and every edge its constraints ask for
\* is in a predecessor list already: the scan of addEdge will find each one
Recorded(V, key, before, after) ==
    /\ HasKey(V, key)
    /\ \A b \in Range(Targets(before)) :
          /\ HasKey(V, b)
          /\ IndexOf(V, key, 0) \in Range(At(V, IndexOf(V, b, 0)).inc)
    /\ \A a \in Range(Targets(after)) :
          /\ HasKey(V, a)
          /\ IndexOf(V, a, 0) \in Range(At(V, IndexOf(V, key, 0)).inc)

\* no call is running.  Of a running call: pc is the statement it is at, op
\* and key the call, start the store it was made on, v the vertex of its key,
\* phase and j the constraint it is processing, pred and succ the edge being
\* checked, search the key visit looks for, i the loop variable of walk,
\* entered[n + 1] how often visit entered vertex n since the last reset
NoPass ==
    [pc |-> "idle", op |-> "none", key |-> NoKey, start |-> NewVertices,
     v |-> -1, phase |-> "none", j |-> 0, pred |-> -1, succ |-> -1,
     search |-> NoKey, i |-> 0, entered |-> <<>>, err |-> "none", chain |-> <<>>]

\* cons is the number of constraint targets the call named, rep whether they
\* were all recorded when the call was made
NoCall ==
    [op |-> "new", err |-> "none", chain |-> <<>>, key |-> NoKey,
     val |-> Undefined, cons |-> 0, was |-> "absent", rep |-> FALSE]

Init ==
    /\ vertices = NewVertices
    /\ twin = NewVertices
    /\ last = NoCall
    /\ emitted = <<>>
    /\ req = {}
    /\ added = {}
    /\ calls = 0
    /\ trace = <<>>
    /\ pass = NoPass

\* dag.add(key, value, before, after), the same call made on the twin
Add(key, value, before, after) ==
    /\ calls < MaxCalls
    /\ calls' = calls + 1
    /\ \E r \in {add(vertices, key, value, before, after)} :
          /\ vertices' = r.V
          /\ last' = [op |-> "add", err |-> r.err, chain |-> r.chain, key |-> key,
                      val |-> value,
                      cons |-> Len(Targets(before)) + Len(Targets(after)),
                      was |-> Was(key),
                      rep |-> Recorded(vertices, key, before, after)]
          /\ req' = IF r.err = "none"
                    THEN req \cup {<<key, b>> : b \in Range(Targets(before))}
                             \cup {<<a, key>> : a \in Range(Targets(after))}
                    ELSE req
    /\ twin' = add(twin, key, value, before, after).V
    /\ emitted' = <<>>
    /\ added' = IF key # NoKey THEN added \cup {key} ELSE added
    /\ UNCHANGED <<trace, pass>>

\* dag.each(callback) with a callback that records its arguments
Each ==
    /\ \E w \in {DagEach(vertices)} :
          /\ vertices' = w.V
          /\ emitted' = w.out
    /\ last' = [NoCall EXCEPT !.op = "each"]
    /\ UNCHANGED <<twin, req, added, calls, trace, pass>>

\* the value a call with constraints passes
FirstValue == "v1"

Next ==
    \/ \E key \in Keys, p \in ConstraintPairs : Add(key, FirstValue, p[1], p[2])
    \/ \E key \in Keys \cup {NoKey}, value \in Values : Add(key, value, Absent, Absent)
    \/ Each

Spec == Init /\ [][Next]_vars

----------------------------------------------------------------------------
(* The documented example: five keys, five add calls *)

ExampleKeys == {"a", "b", "c", "d", "e"}

\* the arguments of the add call of the example that has this key; the
\* values 1..5 are opaque to the program and written as strings
ExampleCall(key) ==
    CASE key = "b" -> [value |-> "2", before |-> Absent,   after |-> Str("a")]
      [] key = "a" -> [value |-> "1", before |-> Absent,   after |-> Absent]
      [] key = "c" -> [value |-> "3", before |-> Str("a"), after |-> Absent]
      [] key = "d" -> [value |-> "4", before |-> Str("b"), after |-> Str("a")]
      [] key = "e" -> [value |-> "5", before |-> Str("d"), after |-> Str("b")]

\* the add call of the example with this key, made once, in any order
ExampleAdd(key) ==
    /\ key \notin Range(trace)
    /\ trace' = Append(trace, key)
    /\ \E c \in {ExampleCall(key)} :
          \E r \in {add(vertices, key, c.value, c.before, c.after)} :
             /\ vertices' = r.V
             /\ last' = [op |-> "add", err |-> r.err, chain |-> r.chain,
                         key |-> key, val |-> c.value,
                         cons |-> Len(Targets(c.before)) + Len(Targets(c.after)),
                         was |-> Was(key),
                         rep |-> Recorded(vertices, key, c.before, c.after)]
    /\ emitted' = <<>>
    /\ added' = added \cup {key}
    /\ UNCHANGED <<twin, req, calls, pass>>

\* dag.each(callback) between two add calls of the example
ExampleEach ==
    /\ IF Len(trace) = 0 THEN TRUE ELSE trace[Len(trace)] # "each"
    /\ trace' = Append(trace, "each")
    /\ \E w \in {DagEach(vertices)} :
          /\ vertices' = w.V
          /\ emitted' = w.out
    /\ last' = [NoCall EXCEPT !.op = "each"]
    /\ UNCHANGED <<twin, req, added, calls, pass>>

NextExample ==
    \/ \E key \in ExampleKeys : ExampleAdd(key)
    \/ ExampleEach

SpecExample == Init /\ [][NextExample]_vars

----------------------------------------------------------------------------
(* each with a visitor that calls add *)

\* indices[j - 1] as the loop of Vertices.each reads it after the store's
\* result stack was reset and refilled: result.length = 0 keeps the elements,
\* push overwrites them from the bottom, so a position the refill did not
\* reach still holds what the traversal of the outer call wrote there.
\* live is the stack now, old the stack when the loop started.
slot(live, old, j) == IF j <= Len(live) THEN live[j] ELSE old[j]

\* what the visitor receives from Vertices.each(this.result, cb) when its call
\* number n (from 0) calls add and returns.  W is the store when the loop
\* starts and N the store the nested add leaves; the loop bound l was read
\* from W.result, the vertices and the indices are read as the loop goes.
eachAdding(W, N, n) ==
    [j \in 1..Len(W.result) |->
        IF j - 1 <= n
        THEN <<At(W, W.result[j]).key, At(W, W.result[j]).val>>
        ELSE <<At(N, slot(N.result, W.result, j)).key,
               At(N, slot(N.result, W.result, j)).val>>]

\* the <<before, after>> pairs of a nested add: at most one target, so at
\* most one cycle check refills the result stack
NestedPairs ==
    {p \in ConstraintPairs : Len(Targets(p[1])) + Len(Targets(p[2])) <= 1}

\* dag.each(callback) with a callback that records its arguments and, in its
\* call number n, calls dag.add(key, value, before, after) on the same
\* instance, catching what the add throws
EachAdding(n, key, value, before, after) ==
    /\ calls < MaxCalls
    /\ calls' = calls + 1
    /\ \E W \in {walkFrom(reset(vertices), 0)} :
          /\ n < Len(W.result)
          /\ \E r \in {add(W, key, value, before, after)} :
                /\ vertices' = r.V
                /\ emitted' = eachAdding(W, r.V, n)
                /\ last' = [op |-> "eachAdding", err |-> r.err, chain |-> r.chain,
                            key |-> key, val |-> value,
                            cons |-> Len(Targets(before)) + Len(Targets(after)),
                            was |-> Was(key),
                            rep |-> Recorded(vertices, key, before, after)]
                /\ req' = IF r.err = "none"
                          THEN req \cup {<<key, b>> : b \in Range(Targets(before))}
                                   \cup {<<a, key>> : a \in Range(Targets(after))}
                          ELSE req
    /\ twin' = add(twin, key, value, before, after).V
    /\ added' = added \cup {key}
    /\ UNCHANGED <<trace, pass>>

NextAdding ==
    \/ Next
    \/ \E n \in 0..(Cardinality(Keys) - 1), key \in Keys, p \in NestedPairs :
          EachAdding(n, key, FirstValue, p[1], p[2])

SpecAdding == Init /\ [][NextAdding]_vars

----------------------------------------------------------------------------
(* The calls of the example taken step by step: one step per iteration of     *)
(* the while loop of visit, of the for loop of walk and of the loops of add   *)

\* entered for a pass that starts
NoneEntered(V) == [n \in 1..Len(V.at) |-> 0]

\* the call throws
Thrown(err, chain) == [pass EXCEPT !.pc = "done", !.err = err, !.chain = chain]

\* dag.each(callback) is called: Vertices.walk up to its for loop
BeginEach ==
    /\ pass.pc = "idle"
    /\ vertices' = reset(vertices)
    /\ pass' = [NoPass EXCEPT !.pc = "for", !.op = "each", !.start = vertices,
                              !.entered = NoneEntered(vertices)]
    /\ emitted' = <<>>
    /\ UNCHANGED <<twin, last, req, added, calls, trace>>

\* one iteration of the for loop of walk up to the while loop of visit, or,
\* when the loop is over, this.each(this.result, cb)
ForStep ==
    /\ pass.pc = "for"
    /\ IF pass.i >= Len(vertices.at)
       THEN /\ emitted' = each(vertices, vertices.result)
            /\ pass' = [pass EXCEPT !.pc = "done"]
            /\ UNCHANGED vertices
       ELSE IF At(vertices, pass.i).out
       THEN /\ pass' = [pass EXCEPT !.i = @ + 1]
            /\ UNCHANGED <<vertices, emitted>>
       ELSE /\ vertices' = [vertices EXCEPT
                                !.stack = push(@, At(vertices, pass.i).idx)]
            /\ pass' = [pass EXCEPT !.pc = "while", !.search = ""]
            /\ UNCHANGED emitted
    /\ UNCHANGED <<twin, last, req, added, calls, trace>>

\* one iteration of the while loop of visit
WhileStep ==
    /\ pass.pc = "while"
    /\ Len(vertices.stack) > 0
    /\ \E r \in {visitStep(vertices, pass.search)} :
          /\ vertices' = r.V
          /\ pass' = [pass EXCEPT
                         !.pc = IF r.brk THEN "visited" ELSE "while",
                         !.entered = IF r.entered >= 0
                                     THEN [@ EXCEPT ![r.entered + 1] = @ + 1]
                                     ELSE @]
    /\ UNCHANGED <<twin, last, emitted, req, added, calls, trace>>

\* while (stack.length) finds the stack empty
WhileEnd ==
    /\ pass.pc = "while"
    /\ Len(vertices.stack) = 0
    /\ pass' = [pass EXCEPT !.pc = "visited"]
    /\ UNCHANGED <<vertices, twin, last, emitted, req, added, calls, trace>>

\* visit has returned: to walk, which goes on with its for loop, or to check,
\* which throws or returns to addEdge, which records the edge
Visited ==
    /\ pass.pc = "visited"
    /\ IF pass.op = "each"
       THEN /\ pass' = [pass EXCEPT !.pc = "for", !.i = @ + 1]
            /\ UNCHANGED vertices
       ELSE IF Len(vertices.path) > 0
       THEN /\ pass' = Thrown("cycle", <<pass.search>> \o PathKeys(vertices))
            /\ UNCHANGED vertices
       ELSE /\ vertices' = commitEdge(Ok(vertices), pass.pred, pass.succ).V
            /\ pass' = [pass EXCEPT !.pc = pass.phase, !.j = @ + 1]
    /\ UNCHANGED <<twin, last, emitted, req, added, calls, trace>>

\* dag.add(key, ...) of the example is called: up to v.val = value
BeginAdd(key) ==
    /\ pass.pc = "idle"
    /\ key \notin Range(trace)
    /\ trace' = Append(trace, key)
    /\ \E r \in {VerticesAdd(vertices, key)} :
          /\ vertices' = [r.V EXCEPT !.at[r.idx + 1].val = ExampleCall(key).value]
          /\ pass' = [NoPass EXCEPT !.pc = "before", !.op = "add", !.key = key,
                                    !.start = vertices, !.v = r.idx]
    /\ emitted' = <<>>
    /\ UNCHANGED <<twin, last, req, added, calls>>

\* Vertices.addEdge(pred, succ) on the store V up to the while loop of visit:
\* the tests of check that need no search, then reset and stack.push(start)
EdgeStep(V, pred, succ) ==
    IF At(V, pred).key = At(V, succ).key
    THEN /\ vertices' = V
         /\ pass' = Thrown("cycle", <<At(V, succ).key, At(V, succ).key>>)
    ELSE IF Len(At(V, pred).inc) = 0
    THEN /\ vertices' = commitEdge(Ok(V), pred, succ).V
         /\ pass' = [pass EXCEPT !.j = @ + 1]
    ELSE IF \E n \in 1..Len(At(V, pred).inc) :
               At(V, At(V, pred).inc[n]).key = At(V, succ).key
    THEN /\ vertices' = V
         /\ pass' = Thrown("cycle",
                           <<At(V, succ).key, At(V, pred).key, At(V, succ).key>>)
    ELSE /\ vertices' = [reset(V) EXCEPT !.stack = push(@, At(V, pred).idx)]
         /\ pass' = [pass EXCEPT !.pc = "while", !.phase = pass.pc,
                                 !.pred = pred, !.succ = succ,
                                 !.search = At(V, succ).key,
                                 !.entered = NoneEntered(V)]

\* vertices.add(target) followed by addEdge; w is what vertices.add returned
TargetStep(w, before) ==
    IF w.err # "none"
    THEN /\ vertices' = w.V
         /\ pass' = Thrown(w.err, <<>>)
    ELSE IF before THEN EdgeStep(w.V, pass.v, w.idx)
    ELSE EdgeStep(w.V, w.idx, pass.v)

\* one iteration of the loop over before, or the end of that loop
BeforeStep ==
    /\ pass.pc = "before"
    /\ \E targets \in {Targets(ExampleCall(pass.key).before)} :
          IF pass.j >= Len(targets)
          THEN /\ pass' = [pass EXCEPT !.pc = "after", !.j = 0]
               /\ UNCHANGED vertices
          ELSE TargetStep(VerticesAdd(vertices, targets[pass.j + 1]), TRUE)
    /\ UNCHANGED <<twin, last, emitted, req, added, calls, trace>>

\* one iteration of the loop over after, or the end of that loop and of add
AfterStep ==
    /\ pass.pc = "after"
    /\ \E targets \in {Targets(ExampleCall(pass.key).after)} :
          IF pass.j >= Len(targets)
          THEN /\ pass' = [pass EXCEPT !.pc = "done"]
               /\ UNCHANGED vertices
          ELSE TargetStep(VerticesAdd(vertices, targets[pass.j + 1]), FALSE)
    /\ UNCHANGED <<twin, last, emitted, req, added, calls, trace>>

\* the call has returned or thrown
Return ==
    /\ pass.pc = "done"
    /\ pass' = NoPass
    /\ UNCHANGED <<vertices, twin, last, emitted, req, added, calls, trace>>

\* the steps of a call that was made
Running ==
    ForStep \/ WhileStep \/ WhileEnd \/ Visited \/ BeforeStep \/ AfterStep

NextSteps ==
    \/ BeginEach
    \/ \E key \in ExampleKeys : BeginAdd(key)
    \/ Running
    \/ Return

SpecSteps == Init /\ [][NextSteps]_vars

\* single-threaded and synchronous: a call that was made keeps running
FairSteps == SpecSteps /\ WF_vars(Running)

----------------------------------------------------------------------------
(* Vocabulary of the properties *)

\* the indices of the vertices of a store
Indices(V) == 0..(Len(V.at) - 1)

\* the persistent part of a store: every field but the visited flags and the
\* three scratch stacks
Persistent(V) ==
    [i \in 1..Len(V.at) |->
        [idx |-> V.at[i].idx, key |-> V.at[i].key, val |-> V.at[i].val,
         out |-> V.at[i].out, inc |-> V.at[i].inc]]

\* the edges alone: predecessor lists and hasSuccessor flags
EdgesOf(V) ==
    [i \in 1..Len(V.at) |-> [out |-> V.at[i].out, inc |-> V.at[i].inc]]

\* the vertices listed as predecessors of the vertices of S
PredsOf(V, S) == UNION {Range(At(V, i).inc) : i \in S}

\* the vertices reached from S by following one to n predecessor entries
RECURSIVE ReachWithin(_, _, _)
ReachWithin(V, S, n) ==
    IF n = 0 THEN {}
    ELSE PredsOf(V, S) \cup ReachWithin(V, PredsOf(V, S), n - 1)

Reach(V, i) == ReachWithin(V, {i}, Len(V.at))

\* the positions at which an each output names a key
Positions(out, key) == {n \in 1..Len(out) : out[n][1] = key}

\* the visitor was called for x, and for y, and every call for x came first
VisitedBefore(out, x, y) ==
    /\ Positions(out, x) # {}
    /\ Positions(out, y) # {}
    /\ \A m \in Positions(out, x), n \in Positions(out, y) : m < n

IsPrefix(p, q) == Len(p) <= Len(q) /\ SubSeq(q, 1, Len(p)) = p

----------------------------------------------------------------------------
(* C1 *)

\* C1: after any sequence of add calls, successful or failing, no vertex
\* reaches itself by following one or more predecessor-list entries.
C1_Acyclic == \A i \in Indices(vertices) : i \notin Reach(vertices, i)

\* an add was just rejected by the deep search on a store with a chain of edges
C1_Witness ==
    /\ last.op = "add"
    /\ last.err = "cycle"
    /\ Len(last.chain) >= 4
    /\ \E i \in Indices(vertices) : Cardinality(Reach(vertices, i)) >= 2

----------------------------------------------------------------------------
(* C2 *)

\* C2: an add call that fails leaves the persistent state as it was before
\* the call: no vertex created, no value changed, no edge committed, no
\* hasSuccessor flag changed.
C2_FailedAddChangesNothing ==
    [][(last'.op = "add" /\ last'.err # "none")
          => Persistent(vertices') = Persistent(vertices)]_vars

----------------------------------------------------------------------------
(* C3 *)

\* C3: for every committed edge (p listed in the predecessor list of s), an
\* each call invokes the visitor for p's key strictly before s's key.
C3_EdgesRespected ==
    last.op = "each" =>
        \A s \in Indices(vertices) : \A p \in Range(At(vertices, s).inc) :
            VisitedBefore(emitted, At(vertices, p).key, At(vertices, s).key)

\* an each ran on a store where one vertex lists two predecessors, one of
\* which precedes the other
C3_Witness ==
    /\ last.op = "each"
    /\ \E s \in Indices(vertices) :
          /\ Len(At(vertices, s).inc) = 2
          /\ \E p \in Range(At(vertices, s).inc) : At(vertices, p).inc # <<>>

----------------------------------------------------------------------------
(* C4 *)

----------------------------------------------------------------------------
(* C5 *)

\* C5: one each call invokes the visitor exactly once for every vertex of the
\* store, added or placeholder, and for nothing else.
C5_EachVertexOnce ==
    last.op = "each" =>
        /\ Len(emitted) = Len(vertices.at)
        /\ \A i \in Indices(vertices) :
              Cardinality(Positions(emitted, At(vertices, i).key)) = 1

\* an each ran on a store with a placeholder and with a vertex that walk
\* skips as a root
C5_Witness ==
    /\ last.op = "each"
    /\ Len(vertices.at) = 3
    /\ \E i \in Indices(vertices) : At(vertices, i).out
    /\ \E i \in Indices(vertices) : At(vertices, i).key \notin added

----------------------------------------------------------------------------
(* C6 *)

\* C6: add(key, newValue) without constraints, for a key already in the
\* store, changes only that vertex's value: the number of vertices, the
\* indices, the predecessor lists and the hasSuccessor flags stay, and each
\* emits the key exactly once, with newValue.
C6_ReAddOnlySetsValue ==
    [][(/\ last'.op = "add"
        /\ last'.key # NoKey
        /\ last'.cons = 0
        /\ HasKey(vertices, last'.key))
          => /\ Len(vertices'.at) = Len(vertices.at)
             /\ \A i \in 1..Len(vertices.at) :
                   Persistent(vertices')[i] =
                       IF vertices.at[i].key = last'.key
                       THEN [Persistent(vertices)[i] EXCEPT !.val = last'.val]
                       ELSE Persistent(vertices)[i]
             /\ LET out == DagEach(vertices').out
                IN  /\ Cardinality(Positions(out, last'.key)) = 1
                    /\ \A n \in Positions(out, last'.key) :
                          out[n] = <<last'.key, last'.val>>]_vars

\* a key that had been added was added again, without constraints, on a store
\* that holds edges
C6_Witness ==
    /\ last.op = "add"
    /\ last.was = "added"
    /\ last.cons = 0
    /\ last.err = "none"
    /\ \E i \in Indices(vertices) : At(vertices, i).key = last.key /\ At(vertices, i).out
    /\ \E i \in Indices(vertices) : At(vertices, i).key = last.key /\ At(vertices, i).inc # <<>>

----------------------------------------------------------------------------
(* C7 *)

\* the vertices a successful add creates for its constraint targets hold the
\* undefined value, and every target has a vertex afterwards
C7_PlaceholderCreated ==
    (last'.op = "add" /\ last'.err = "none")
        => /\ \A i \in (Len(vertices.at) + 1)..Len(vertices'.at) :
                 vertices'.at[i].key # last'.key => vertices'.at[i].val = Undefined
           /\ \A r \in req' : HasKey(vertices', r[1]) /\ HasKey(vertices', r[2])

\* add(u, x) for a placeholder u: u keeps its index and key, takes the value
\* x, and every predecessor list only grows at its end
C7_PlaceholderFilled ==
    (last'.op = "add" /\ last'.was = "placeholder")
        => LET i == IndexOf(vertices, last'.key, 0)
           IN  /\ At(vertices', i).idx = i
               /\ At(vertices', i).key = last'.key
               /\ At(vertices', i).val = last'.val
               /\ \A j \in Indices(vertices) :
                     /\ IsPrefix(At(vertices, j).inc, At(vertices', j).inc)
                     /\ At(vertices, j).out => At(vertices', j).out

\* an add leaves the value of every vertex but its own as it was
C7_OtherValuesKept ==
    last'.op = "add"
        => \A j \in Indices(vertices) :
              At(vertices, j).key # last'.key
                  => At(vertices', j).val = At(vertices, j).val

\* each hands the visitor every vertex with the value it holds: the undefined
\* value for a key that was never explicitly added
C7_EachEmitsValue ==
    last.op = "each"
        => \A i \in Indices(vertices) :
              /\ <<At(vertices, i).key, At(vertices, i).val>> \in Range(emitted)
              /\ At(vertices, i).key \notin added
                    => <<At(vertices, i).key, Undefined>> \in Range(emitted)

\* C7: a successful add that names an unseen key u creates a vertex for u with
\* the undefined value; each emits (u, undefined) as long as u is not
\* explicitly added, and (u, x) after a later add(u, x), which leaves u's
\* index and the edges recorded on u unchanged.
C7_ForwardReference ==
    /\ [][C7_PlaceholderCreated /\ C7_PlaceholderFilled /\ C7_OtherValuesKept]_vars
    /\ []C7_EachEmitsValue

\* a placeholder that already had edges was explicitly added, while another
\* placeholder is still in the store
C7_Witness ==
    /\ last.op = "add"
    /\ last.was = "placeholder"
    /\ last.err = "none"
    /\ \E i \in Indices(vertices) :
          /\ At(vertices, i).key = last.key
          /\ At(vertices, i).val = last.val
          /\ At(vertices, i).out
    /\ \E i \in Indices(vertices) :
          At(vertices, i).key \notin added /\ At(vertices, i).val = Undefined

----------------------------------------------------------------------------
(* C8 *)

\* C8: two each calls with no add in between emit the same sequence, and a
\* second instance given the same add calls (failing ones included) emits
\* that sequence too.
C8_Deterministic ==
    /\ [][(last.op = "each" /\ last'.op = "each") => emitted' = emitted]_vars
    /\ [](last.op = "each" => emitted = DagEach(twin).out)

\* an each ran on the instance while the twin still holds the scratch state
\* of a deep search that an add stopped at the searched key
C8_Witness ==
    /\ last.op = "each"
    /\ Len(emitted) = 3
    /\ twin.path # <<>>
    /\ twin.result # vertices.result

----------------------------------------------------------------------------
(* C9 *)

\* C9: add(a, v, a) and add(a, v, undefined, a) fail with a cycle error and
\* add no predecessor entry and set no hasSuccessor flag.
C9_SelfLoopRejected ==
    [][\A a \in Keys, v \in Values :
          (/\ last'.op = "add"
           /\ last'.key = a
           /\ last'.cons = 1
           /\ (Add(a, v, Str(a), Absent) \/ Add(a, v, Absent, Str(a))))
             => /\ last'.err = "cycle"
                /\ \A i \in 1..Len(vertices'.at) :
                      IF i <= Len(vertices.at)
                      THEN EdgesOf(vertices')[i] = EdgesOf(vertices)[i]
                      ELSE EdgesOf(vertices')[i] = [out |-> FALSE, inc |-> <<>>]]_vars

\* an add naming its own key as its only constraint was rejected, on a store
\* where that key already has predecessors
C9_Witness ==
    /\ last.op = "add"
    /\ last.err = "cycle"
    /\ last.cons = 1
    /\ last.chain = <<last.key, last.key>>
    /\ \E i \in Indices(vertices) :
          At(vertices, i).key = last.key /\ At(vertices, i).inc # <<>>

----------------------------------------------------------------------------
(* C10 *)

\* C10: an each call leaves the vertex sequence, the keys, the values, the
\* predecessor lists and the hasSuccessor flags as they were.
C10_EachReadOnly ==
    [][last'.op = "each" => Persistent(vertices') = Persistent(vertices)]_vars

\* an each ran on a store with edges and left its scratch state behind
C10_Witness ==
    /\ last.op = "each"
    /\ Len(vertices.result) = 3
    /\ \A i \in Indices(vertices) : At(vertices, i).flag
    /\ \E i \in Indices(vertices) : At(vertices, i).out

----------------------------------------------------------------------------
(* C11 *)

\* the calls of the example in the documented order, as far as they were made
ExampleOrder == <<"b", "a", "each", "c", "each", "d", "e">>

----------------------------------------------------------------------------
(* C12 *)

\* addEdge(v, w) would be rejected: check(v, w.key) throws
Rejects(V, v, w) == check(V, v, At(V, w).key).err = "cycle"

\* C12: in every reachable store and for every pair of vertices, the cycle
\* check rejects the edge from predecessor v to successor w exactly when v
\* and w are the same vertex or w is reached from v by following
\* predecessor-list entries.
C12_CheckExact ==
    \A v, w \in Indices(vertices) :
        Rejects(vertices, v, w) <=> (v = w \/ w \in Reach(vertices, v))

\* a store on which the deep search rejects one pair and accepts another
C12_Witness ==
    /\ \E v, w \in Indices(vertices) :
          /\ v # w
          /\ w \in Reach(vertices, v)
          /\ w \notin Range(At(vertices, v).inc)
          /\ Rejects(vertices, v, w)
    /\ \E v, w \in Indices(vertices) :
          /\ v # w
          /\ Len(At(vertices, v).inc) > 0
          /\ w \notin Reach(vertices, v)
          /\ ~Rejects(vertices, v, w)

----------------------------------------------------------------------------
(* C13 *)

\* every key of q after the first names a vertex listed in the predecessor
\* list of the vertex named just before it
IsDependencyPath(V, q) ==
    \A n \in 1..(Len(q) - 1) :
        /\ HasKey(V, q[n]) /\ HasKey(V, q[n + 1])
        /\ IndexOf(V, q[n + 1], 0) \in Range(At(V, IndexOf(V, q[n], 0)).inc)

\* chain is the successor's key followed by a dependency path from the
\* predecessor pred to the successor succ (both keys)
IsCycleChain(V, pred, succ, chain) ==
    /\ Len(chain) >= 3
    /\ chain[1] = succ
    /\ chain[2] = pred
    /\ chain[Len(chain)] = succ
    /\ IsDependencyPath(V, Tail(chain))

\* c is the outcome of check for the edge from v to w
RejectedWithChain(c, V, v, w) ==
    c.err = "cycle" => IsCycleChain(V, At(V, v).key, At(V, w).key, c.chain)

\* C13: whenever the edge from predecessor v to successor w, two distinct
\* vertices, is rejected, the reported chain is w's key followed by a path
\* that starts at v, follows predecessor-list entries and ends at w; this
\* holds of the chain the last rejected add reported.
C13_ChainIsPath ==
    /\ \A v, w \in Indices(vertices) :
          v # w => RejectedWithChain(check(vertices, v, At(vertices, w).key),
                                     vertices, v, w)
    /\ (last.op = "add" /\ last.err = "cycle" /\ Len(last.chain) > 2)
          => /\ last.key \in {last.chain[1], last.chain[2]}
             /\ IsCycleChain(vertices, last.chain[2], last.chain[1], last.chain)

\* an add was rejected by the deep search after the search had finished
\* another branch: the first listed predecessor of the start is not on the path
C13_Witness ==
    /\ last.op = "add"
    /\ last.err = "cycle"
    /\ Len(last.chain) >= 4
    /\ At(vertices, IndexOf(vertices, last.chain[2], 0)).inc[1]
          # IndexOf(vertices, last.chain[3], 0)

----------------------------------------------------------------------------
(* C14 *)

\* The reference: a recursive post-order depth-first visit.  st is
\* [seen, out]: the vertices marked so far and the vertices emitted so far.
RECURSIVE RefVisit(_, _, _)
RECURSIVE RefVisitAll(_, _, _, _)

RefEmit(st, v) == [st EXCEPT !.out = Append(@, v)]

\* visit(v) = if v is visited return; mark v; visit each listed predecessor
\* of v in listed order; emit v
RefVisit(V, v, st) ==
    IF v \in st.seen THEN st
    ELSE RefEmit(RefVisitAll(V, At(V, v).inc, 1, [st EXCEPT !.seen = @ \cup {v}]), v)

RefVisitAll(V, q, n, st) ==
    IF n > Len(q) THEN st
    ELSE RefVisitAll(V, q, n + 1, RefVisit(V, q[n], st))

\* visit(v) for each vertex without successor, in insertion order
RECURSIVE RefRoots(_, _, _)
RefRoots(V, i, st) ==
    IF i >= Len(V.at) THEN st
    ELSE IF At(V, i).out THEN RefRoots(V, i + 1, st)
    ELSE RefRoots(V, i + 1, RefVisit(V, i, st))

RefOrder(V) == RefRoots(V, 0, [seen |-> {}, out |-> <<>>]).out

\* C14: on every reachable store the sequence walk hands to the visitor is
\* the sequence the reference recursive post-order visit emits, and so is
\* the sequence the last each call emitted.
C14_WalkIsRecursiveDFS ==
    /\ walk(vertices).out = each(vertices, RefOrder(vertices))
    /\ last.op = "each" => emitted = each(vertices, RefOrder(vertices))

\* each ran on a store of three vertices, one of them with two listed
\* predecessors
C14_Witness ==
    /\ last.op = "each"
    /\ Len(emitted) = 3
    /\ \E i \in Indices(vertices) : Len(At(vertices, i).inc) = 2

----------------------------------------------------------------------------
(* C15 *)

\* the vertices no vertex lists as a predecessor
Roots(V) == {i \in Indices(V) : ~At(V, i).out}

\* out names two vertices without successor in the order of their indices
RootsInInsertionOrder(V, out) ==
    \A u, v \in Roots(V) :
        u # v => (VisitedBefore(out, At(V, u).key, At(V, v).key) <=> u < v)

\* C15: on every reachable store, of two vertices that both have no
\* successor each emits first the one inserted first, and so did the last
\* each call.
C15_RootsByInsertion ==
    /\ RootsInInsertionOrder(vertices, walk(vertices).out)
    /\ last.op = "each" => RootsInInsertionOrder(vertices, emitted)

\* each ran on a store with an edge and two vertices without successor
C15_Witness ==
    /\ last.op = "each"
    /\ Len(emitted) = 3
    /\ Cardinality(Roots(vertices)) = 2

----------------------------------------------------------------------------
(* C16 *)

\* the keys of an each output, in order
KeysOf(out) == [j \in 1..Len(out) |-> out[j][1]]

\* C16: when the visitor passed to each calls add on the same instance, the
\* outer each call still hands the visitor the keys of the topological order
\* of the store it started on, in that order, each once.
C16_NestedAddKeepsOrder ==
    [][last'.op = "eachAdding"
          => KeysOf(emitted') = KeysOf(walk(vertices).out)]_vars

----------------------------------------------------------------------------
(* C17 *)

\* scratch states an earlier pass can have left: every visited flag down or
\* up, the three stacks empty or holding an index
ScratchStates == {[flag |-> f, buf |-> b] : f \in BOOLEAN, b \in {<<>>, <<0>>}}

\* the store with the same persistent part and this scratch state
WithScratch(V, s) ==
    [at     |-> [i \in 1..Len(V.at) |-> [V.at[i] EXCEPT !.flag = s.flag]],
     stack  |-> s.buf,
     path   |-> s.buf,
     result |-> s.buf]

\* the verdict of a cycle check: thrown or not, and the chain reported
Verdict(c) == <<c.err, c.chain>>

\* C17: the output of each and the verdict of every cycle check are the same
\* on the store as the earlier calls left it and on the store with the same
\* persistent part and any other scratch state.
C17_ScratchCarriesNothing ==
    \A s \in ScratchStates :
        /\ walk(WithScratch(vertices, s)).out = walk(vertices).out
        /\ \A v, w \in Indices(vertices) :
              Verdict(check(WithScratch(vertices, s), v, At(vertices, w).key))
                 = Verdict(check(vertices, v, At(vertices, w).key))

\* each emitted three vertices right after add calls of which one was stopped
\* in its deep search: the twin, given the same add calls and no each, still
\* holds the stack and the path the search left
C17_Witness ==
    /\ last.op = "each"
    /\ Len(emitted) = 3
    /\ Len(twin.stack) > 0
    /\ Len(twin.path) > 0
    /\ Persistent(twin) = Persistent(vertices)

----------------------------------------------------------------------------
(* C18 *)

\* no element occurs twice in q
NoRepeats(q) == \A m, n \in 1..Len(q) : q[m] = q[n] => m = n

\* C18 (first part): no predecessor list holds the same index twice.
C18_NoDuplicates == \A i \in Indices(vertices) : NoRepeats(At(vertices, i).inc)

\* C18 (second part): an add whose key is in the store and whose constraints
\* are all recorded already succeeds and leaves every predecessor list and
\* every hasSuccessor flag as it was.
C18_RepeatChangesNoEdge ==
    [][(last'.op = "add" /\ last'.rep)
          => /\ last'.err = "none"
             /\ EdgesOf(vertices') = EdgesOf(vertices)]_vars

\* C18: edge insertion is idempotent.
C18_Idempotent == []C18_NoDuplicates /\ C18_RepeatChangesNoEdge

\* an add naming two constraints that were both recorded already has returned
C18_Witness ==
    /\ last.op = "add"
    /\ last.rep
    /\ last.cons = 2
    /\ last.err = "none"

----------------------------------------------------------------------------
(* C19 *)

\* the vertices listed in at least one predecessor list
Listed(V) == UNION {Range(At(V, j).inc) : j \in Indices(V)}

\* C19: the hasSuccessor flag of a vertex is set exactly when its index is in
\* the predecessor list of some vertex, so the vertices walk starts a visit
\* at are the vertices no vertex depends on.
C19_OutIffListed ==
    /\ \A i \in Indices(vertices) : At(vertices, i).out <=> i \in Listed(vertices)
    /\ Roots(vertices) = Indices(vertices) \ Listed(vertices)

\* an add returned on a store with listed and unlisted vertices
C19_Witness ==
    /\ last.op = "add"
    /\ Len(vertices.at) = 3
    /\ Cardinality(Listed(vertices)) = 2
    /\ \E i \in Indices(vertices) : ~At(vertices, i).out

----------------------------------------------------------------------------
(* C20 *)

\* the call that has ended left what the call taken as a whole leaves
SameAsEach(w) == vertices = w.V /\ emitted = w.out

SameAsAdd(r) == vertices = r.V /\ pass.err = r.err /\ pass.chain = r.chain

EndsAsWhole ==
    pass.pc = "done" =>
        IF pass.op = "each" THEN SameAsEach(DagEach(pass.start))
        ELSE SameAsAdd(add(pass.start, pass.key, ExampleCall(pass.key).value,
                           ExampleCall(pass.key).before, ExampleCall(pass.key).after))

\* visit entered no vertex twice since the last reset
EnteredOnce == \A n \in 1..Len(pass.entered) : pass.entered[n] <= 1

\* C20: every add call and every each call that is made ends, with the
\* outcome of the call, and between two resets the loop of visit enters each
\* vertex at most once.
C20_Terminates ==
    /\ (pass.pc \notin {"idle", "done"}) ~> (pass.pc = "done")
    /\ []EnteredOnce
    /\ []EndsAsWhole

\* a deep search that entered three vertices has stopped at the searched key
C20_Witness ==
    /\ pass.pc = "done"
    /\ pass.op = "add"
    /\ pass.err = "cycle"
    /\ Cardinality({n \in 1..Len(pass.entered) : pass.entered[n] = 1}) >= 3

====
